---- MODULE Spec2Model ----
(***************************************************************************)
(* Terrain generation of src/src/TerrainRenderer.ts (class                 *)
(* WaveFunctionCollapse, the feature-bearing variant): seeding, queue      *)
(* driven propagation with bounded retries and fallback, smoothing pass    *)
(* and contextual feature pass.                                            *)
(*                                                                         *)
(* Numbers.  JavaScript doubles are modelled in fixed point with two       *)
(* decimals: the integer n stands for n / 100, so height 15 is 1500 and a  *)
(* Math.random() result r in [0,1) is an integer in 0..99.  Division       *)
(* rounds towards zero.  The two non-numeric values the code can produce   *)
(* (undefined, NaN) are the sentinels Undefined and NaN; every comparison  *)
(* with one of them is false and every sum with one of them is NaN, as in  *)
(* JavaScript.                                                             *)
(***************************************************************************)
EXTENDS Integers, Sequences, FiniteSets, TLC

(***************************************************************************)
(* Bounds of the model.                                                    *)
(***************************************************************************)
\* the largest grid generated, in cells
MaxCells == 2

\* the arguments generateTerrain is called with (negative and zero included)
DimArgs == {wd \in ((0 - 1) .. MaxCells) \X ((0 - 1) .. MaxCells) : wd[1] * wd[2] <= MaxCells}

\* values of Math.random() the model draws, per use
ClimateDraws == {20, 80}
\* getWeightedRandomHeight: <<draw that selects the type, draw inside its range>>
HeightRolls == {<<0, 50>>, <<15, 50>>, <<77, 50>>, <<85, 50>>}
\* attempts 1..4: position inside the valid range
RangeDraws == {0, 50}
\* adjustHeightForBiome: the jitter draw
JitterDraws == {0, 50}
\* the inputs of a determineTerrainType call on its own: every band boundary
\* and climate threshold with the values next to it
HeightInputs == {0, 100, 199, 200, 201, 299, 300, 301, 450, 599, 600, 601, 750,
                 899, 900, 901, 1050, 1199, 1200, 1201, 1500}
ClimateInputs == {0, 29, 30, 31, 40, 41, 60, 61, 70, 71, 99}

\* a caller that generates twice: the calls it makes, and their draws
MaxRuns == 2
RerunArgs == {<<2, 1>>}
RerunMoistures == {20, 80}
RerunTemperatures == {80}
RerunRolls == {<<0, 50>>, <<77, 50>>}

\* a single row of three cells in a uniform climate: the smallest grid with a
\* cell that has two neighbours
RowArgs == {<<3, 1>>}
RowClimates == {50}
\* heights 1.0 (deep water), 8.52 (hills) and 10.5 (mountains)
RowRolls == {<<0, 50>>, <<65, 84>>, <<77, 50>>}

\* the simple variant: the grids generated (up to a row of three cells, in
\* which a cell has two neighbours) and the draws of its
\* getWeightedRandomHeight (heights 1.0 water, 6.5 hills, 9.0 and 9.98
\* mountains)
SimpleDimArgs == {<<1, 1>>, <<2, 1>>, <<1, 2>>, <<3, 1>>}
SimpleRolls == {<<0, 50>>, <<60, 50>>, <<95, 50>>, <<95, 99>>}

\* a row of three cells whose seeds can carry a feature: grassland (4.0 and
\* 5.9) and mountains (10.5) in a dry temperate climate; smoothing can turn a
\* grassland seed that carries a village into hills
CastleArgs == {<<3, 1>>}
CastleMoistures == {20}
CastleTemperatures == {50}
CastleRolls == {<<20, 0>>, <<20, 95>>, <<77, 50>>}

\* generateFeatures: which entries of the type's table the draws select
\* (every probability is at most 0.05: a seed usually gets no feature)
SeedHits == {<<FALSE, FALSE, FALSE>>}

\* two cells side by side whose seeds can carry a feature: grassland (5.0),
\* hills (7.5) and mountains (10.5) in a dry climate, temperate or hot
FeatureArgs == {<<2, 1>>}
FeatureMoistures == {20}
FeatureTemperatures == {50, 80}
FeatureRolls == {<<20, 50>>, <<65, 50>>, <<77, 50>>}
FeatureHits == {<<FALSE, FALSE, FALSE>>, <<TRUE, FALSE, FALSE>>}

(***************************************************************************)
(* Numbers                                                                 *)
(***************************************************************************)
Fix(n) == n * 100
NaN == -1
Undefined == -2
IsNum(a) == a >= 0

MathMax(a, b) == IF a >= b THEN a ELSE b
MathMin(a, b) == IF a <= b THEN a ELSE b
MathAbs(a) == IF a >= 0 THEN a ELSE 0 - a

\* a + b and a / n of JavaScript on possibly non-numeric operands
JsAdd(a, b) == IF IsNum(a) /\ IsNum(b) THEN a + b ELSE NaN
JsDiv(a, n) == IF IsNum(a) /\ n > 0 THEN a \div n ELSE NaN
JsGt(a, b) == IsNum(a) /\ IsNum(b) /\ a > b
JsLt(a, b) == IsNum(a) /\ IsNum(b) /\ a < b

RECURSIVE SumSeq(_)
SumSeq(s) == IF s = <<>> THEN 0 ELSE JsAdd(Head(s), SumSeq(Tail(s)))

(***************************************************************************)
(* TerrainRuleSet: the static tables                                       *)
(***************************************************************************)
\* enum TerrainType, in declaration order (the order Object.entries walks)
TerrainType == << "DEEP_WATER", "SHALLOW_WATER", "BEACH", "GRASSLAND", "FOREST",
                  "DENSE_FOREST", "HILLS", "MOUNTAINS", "SNOW_PEAKS", "DESERT",
                  "SWAMP", "WASTELAND" >>
TerrainTypes == {TerrainType[k] : k \in DOMAIN TerrainType}

\* enum TerrainFeature, in declaration order
TerrainFeature == << "NONE", "ANCIENT_RUINS", "CASTLE", "VILLAGE", "TOWER",
                     "CAVE_ENTRANCE", "TEMPLE", "STANDING_STONES",
                     "MAGICAL_CRYSTAL", "PORTAL", "DRAGON_LAIR", "SHIPWRECK" >>

MIN_HEIGHT == 0
MAX_HEIGHT == 1500
COLLAPSE_ATTEMPTS == 5

HEIGHT_THRESHOLDS ==
  [ DEEP_WATER    |-> [min |-> Fix(0),  max |-> Fix(2)],
    SHALLOW_WATER |-> [min |-> Fix(2),  max |-> Fix(3)],
    BEACH         |-> [min |-> Fix(3),  max |-> Fix(4)],
    GRASSLAND     |-> [min |-> Fix(4),  max |-> Fix(6)],
    FOREST        |-> [min |-> Fix(4),  max |-> Fix(7)],
    DENSE_FOREST  |-> [min |-> Fix(5),  max |-> Fix(8)],
    HILLS         |-> [min |-> Fix(6),  max |-> Fix(9)],
    MOUNTAINS     |-> [min |-> Fix(9),  max |-> Fix(12)],
    SNOW_PEAKS    |-> [min |-> Fix(12), max |-> Fix(15)],
    DESERT        |-> [min |-> Fix(4),  max |-> Fix(6)],
    SWAMP         |-> [min |-> Fix(3),  max |-> Fix(4)],
    WASTELAND     |-> [min |-> Fix(4),  max |-> Fix(8)] ]

TERRAIN_WEIGHTS ==
  [ DEEP_WATER |-> 8, SHALLOW_WATER |-> 7, BEACH |-> 5, GRASSLAND |-> 20,
    FOREST |-> 15, DENSE_FOREST |-> 10, HILLS |-> 12, MOUNTAINS |-> 8,
    SNOW_PEAKS |-> 3, DESERT |-> 5, SWAMP |-> 4, WASTELAND |-> 3 ]

VALID_NEIGHBORS ==
  [ DEEP_WATER    |-> {"DEEP_WATER", "SHALLOW_WATER"},
    SHALLOW_WATER |-> {"DEEP_WATER", "SHALLOW_WATER", "BEACH"},
    BEACH         |-> {"SHALLOW_WATER", "BEACH", "GRASSLAND", "DESERT"},
    GRASSLAND     |-> {"BEACH", "GRASSLAND", "FOREST", "HILLS", "SWAMP"},
    FOREST        |-> {"GRASSLAND", "FOREST", "DENSE_FOREST", "HILLS"},
    DENSE_FOREST  |-> {"FOREST", "DENSE_FOREST", "HILLS"},
    HILLS         |-> {"GRASSLAND", "FOREST", "HILLS", "MOUNTAINS"},
    MOUNTAINS     |-> {"HILLS", "MOUNTAINS", "SNOW_PEAKS"},
    SNOW_PEAKS    |-> {"MOUNTAINS", "SNOW_PEAKS"},
    DESERT        |-> {"BEACH", "DESERT", "WASTELAND"},
    SWAMP         |-> {"SHALLOW_WATER", "GRASSLAND", "SWAMP"},
    WASTELAND     |-> {"DESERT", "WASTELAND", "MOUNTAINS"} ]

\* the features with a probability entry, per type, in Object.entries order
\* (integer keys ascending; BEACH's key TerrainFeature.RUINS does not exist in
\* the enum, so its entry is keyed "undefined", which Number() turns into NaN)
FEATURE_PROBABILITIES ==
  [ DEEP_WATER    |-> <<"SHIPWRECK">>,
    SHALLOW_WATER |-> <<"SHIPWRECK">>,
    BEACH         |-> <<"NaN">>,
    GRASSLAND     |-> <<"VILLAGE", "TEMPLE", "STANDING_STONES">>,
    FOREST        |-> <<"ANCIENT_RUINS", "TEMPLE", "STANDING_STONES">>,
    DENSE_FOREST  |-> <<"ANCIENT_RUINS", "MAGICAL_CRYSTAL", "PORTAL">>,
    HILLS         |-> <<"CASTLE", "TOWER", "CAVE_ENTRANCE">>,
    MOUNTAINS     |-> <<"TOWER", "CAVE_ENTRANCE", "DRAGON_LAIR">>,
    SNOW_PEAKS    |-> <<"MAGICAL_CRYSTAL", "DRAGON_LAIR">>,
    DESERT        |-> <<"ANCIENT_RUINS", "TEMPLE">>,
    SWAMP         |-> <<"ANCIENT_RUINS", "MAGICAL_CRYSTAL">>,
    WASTELAND     |-> <<"ANCIENT_RUINS", "PORTAL">> ]

(***************************************************************************)
(* TileClassifier                                                          *)
(***************************************************************************)
\* mutant: the mountain and hill bands tested with >= at their minimum
determineTerrainTypeInclusive(height, moisture, temperature) ==
  IF height <= HEIGHT_THRESHOLDS["DEEP_WATER"].max THEN "DEEP_WATER"
  ELSE IF height <= HEIGHT_THRESHOLDS["SHALLOW_WATER"].max THEN "SHALLOW_WATER"
  ELSE IF height >= HEIGHT_THRESHOLDS["SNOW_PEAKS"].min THEN "SNOW_PEAKS"
  ELSE IF JsGt(temperature, 70) /\ JsLt(moisture, 30) THEN "DESERT"
  ELSE IF JsGt(moisture, 70) /\ height < HEIGHT_THRESHOLDS["HILLS"].min THEN "SWAMP"
  ELSE IF JsLt(temperature, 30) /\ height > HEIGHT_THRESHOLDS["MOUNTAINS"].min
       THEN "SNOW_PEAKS"
  ELSE IF height >= HEIGHT_THRESHOLDS["MOUNTAINS"].min THEN "MOUNTAINS"
  ELSE IF height >= HEIGHT_THRESHOLDS["HILLS"].min THEN "HILLS"
  ELSE IF JsGt(moisture, 60) THEN "DENSE_FOREST"
  ELSE IF JsGt(moisture, 40) THEN "FOREST"
  ELSE "GRASSLAND"

\* mutant: heights of the beach band above shallow water are classified BEACH
determineTerrainTypeWithBeach(height, moisture, temperature) ==
  IF height <= HEIGHT_THRESHOLDS["DEEP_WATER"].max THEN "DEEP_WATER"
  ELSE IF height <= HEIGHT_THRESHOLDS["SHALLOW_WATER"].max THEN "SHALLOW_WATER"
  ELSE IF height <= HEIGHT_THRESHOLDS["BEACH"].max THEN "BEACH"
  ELSE IF height >= HEIGHT_THRESHOLDS["SNOW_PEAKS"].min THEN "SNOW_PEAKS"
  ELSE IF JsGt(temperature, 70) /\ JsLt(moisture, 30) THEN "DESERT"
  ELSE IF JsGt(moisture, 70) /\ height < HEIGHT_THRESHOLDS["HILLS"].min THEN "SWAMP"
  ELSE IF JsLt(temperature, 30) /\ height > HEIGHT_THRESHOLDS["MOUNTAINS"].min
       THEN "SNOW_PEAKS"
  ELSE IF height > HEIGHT_THRESHOLDS["MOUNTAINS"].min THEN "MOUNTAINS"
  ELSE IF height > HEIGHT_THRESHOLDS["HILLS"].min THEN "HILLS"
  ELSE IF JsGt(moisture, 60) THEN "DENSE_FOREST"
  ELSE IF JsGt(moisture, 40) THEN "FOREST"
  ELSE "GRASSLAND"

determineTerrainType(height, moisture, temperature) ==
  IF height <= HEIGHT_THRESHOLDS["DEEP_WATER"].max THEN "DEEP_WATER"
  ELSE IF height <= HEIGHT_THRESHOLDS["SHALLOW_WATER"].max THEN "SHALLOW_WATER"
  ELSE IF height >= HEIGHT_THRESHOLDS["SNOW_PEAKS"].min THEN "SNOW_PEAKS"
  ELSE IF JsGt(temperature, 70) /\ JsLt(moisture, 30) THEN "DESERT"
  ELSE IF JsGt(moisture, 70) /\ height < HEIGHT_THRESHOLDS["HILLS"].min THEN "SWAMP"
  ELSE IF JsLt(temperature, 30) /\ height > HEIGHT_THRESHOLDS["MOUNTAINS"].min
       THEN "SNOW_PEAKS"
  ELSE IF height > HEIGHT_THRESHOLDS["MOUNTAINS"].min THEN "MOUNTAINS"
  ELSE IF height > HEIGHT_THRESHOLDS["HILLS"].min THEN "HILLS"
  ELSE IF JsGt(moisture, 60) THEN "DENSE_FOREST"
  ELSE IF JsGt(moisture, 40) THEN "FOREST"
  ELSE "GRASSLAND"

\* generateFeatures: walks the type's entries in order and keeps those whose
\* Math.random() draw is below the probability; hit[k] is the outcome for entry k
RECURSIVE KeepHits(_, _, _)
KeepHits(entries, hit, k) ==
  IF k > Len(entries) THEN <<>>
  ELSE (IF hit[k] THEN <<entries[k]>> ELSE <<>>) \o KeepHits(entries, hit, k + 1)

generateFeatures(type, hit) == KeepHits(FEATURE_PROBABILITIES[type], hit, 1)

\* getWeightedRandomHeight: r1 walks the cumulative weights, r2 samples inside
\* the winning type's range
RECURSIVE WalkWeights(_, _, _, _)
WalkWeights(k, cumulativeProbability, r1, r2) ==
  IF k > Len(TerrainType) THEN HEIGHT_THRESHOLDS["GRASSLAND"].min
  ELSE LET cum == cumulativeProbability + TERRAIN_WEIGHTS[TerrainType[k]]
           range == HEIGHT_THRESHOLDS[TerrainType[k]]
       IN IF r1 < cum
          THEN range.min + (r2 * (range.max - range.min)) \div 100
          ELSE WalkWeights(k + 1, cum, r1, r2)

\* mutant: the sample is range.min + random * range.max
RECURSIVE WalkWeightsNoSpan(_, _, _, _)
WalkWeightsNoSpan(k, cumulativeProbability, r1, r2) ==
  IF k > Len(TerrainType) THEN HEIGHT_THRESHOLDS["GRASSLAND"].min
  ELSE LET cum == cumulativeProbability + TERRAIN_WEIGHTS[TerrainType[k]]
           range == HEIGHT_THRESHOLDS[TerrainType[k]]
       IN IF r1 < cum
          THEN range.min + (r2 * range.max) \div 100
          ELSE WalkWeightsNoSpan(k + 1, cum, r1, r2)

getWeightedRandomHeightNoSpan(r1, r2) == WalkWeightsNoSpan(1, 0, r1, r2)

getWeightedRandomHeight(r1, r2) == WalkWeights(1, 0, r1, r2)

isValidNeighbor(current, neighbor) ==
  LET isValidBasicNeighbor == neighbor \in VALID_NEIGHBORS[current]
  IN IF ~isValidBasicNeighbor
     THEN \/ \E intermediateType \in VALID_NEIGHBORS[current] :
                neighbor \in VALID_NEIGHBORS[intermediateType]
          \/ current \in {"DEEP_WATER", "SHALLOW_WATER"}
               /\ neighbor \in {"DEEP_WATER", "SHALLOW_WATER"}
          \/ current \in {"MOUNTAINS", "SNOW_PEAKS"}
               /\ neighbor \in {"MOUNTAINS", "SNOW_PEAKS"}
          \/ current \in {"FOREST", "DENSE_FOREST"}
               /\ neighbor \in {"FOREST", "DENSE_FOREST"}
     ELSE isValidBasicNeighbor

(***************************************************************************)
(* State of one generateTerrain(width, height) call                        *)
(***************************************************************************)
VARIABLES
  phase,          \* "idle", "seed", "enqueue" (simple variant), "propagate",
                  \* "smooth", "feature", "done", "error"
  width, depth,   \* the arguments (the code names the second one height)
  allocated,      \* TRUE once the grid and the climate maps exist
  terrain,        \* the grid: <<x, z>> -> Null, Hole or a tile
  moistureMap, temperatureMap,
  i,              \* the seeding loop's counter
  queue,          \* propagateTerrain's work queue of <<x, z>>
  cur, dir,       \* the dequeued coordinate and the direction being expanded (5: none)
  attempt,        \* the retry loop's counter for the neighbour being expanded
  pos,            \* post-processing: cells already visited in the current pass
  outcome,        \* "none", "ok", "RangeError", "TypeError"
  seeded,         \* history: the coordinates written by the seeding loop
  fallback,       \* history: the coordinates assigned by the fallback path
  runs,           \* history: the calls that have returned a grid
  previous,       \* history: the grid the previous call returned
  args, result,   \* a determineTerrainType call on its own: <<height, moisture,
                  \* temperature>> and the type returned ("none" before the call)
  presmooth,      \* history: the grid as propagateTerrain left it
  order,          \* history: the coordinates in the order they were first decided
  expanded,       \* history: the coordinates in the order they were dequeued
  validRange      \* the simple variant's range for the neighbour being expanded
                  \* (<< >> while none is being expanded)

vars == << phase, width, depth, allocated, terrain, moistureMap, temperatureMap,
           i, queue, cur, dir, attempt, pos, outcome, seeded, fallback,
           runs, previous, args, result, presmooth, order, expanded,
           validRange >>

Null == [kind |-> "null"]
Hole == [kind |-> "undefined"]      \* an index past the end of a row

Tile(h, ty, m, t, f) ==
  [kind |-> "tile", height |-> h, type |-> ty, moisture |-> m,
   temperature |-> t, features |-> f]

IsTile(c) == c.kind = "tile"

\* the cells of a width x depth array of rows
Cells(w, d) == (0 .. w - 1) \X (0 .. d - 1)
\* a row of declared length 0 can still be written at index 0
GridCells(w, d) == (0 .. MathMax(w, 1) - 1) \X (0 .. d - 1)

\* terrain[z][x]
At(t, x, z) == IF <<x, z>> \in DOMAIN t THEN t[<<x, z>>] ELSE Hole
\* map[z][x] of a climate map
MapAt(map, x, z) == IF <<x, z>> \in DOMAIN map THEN map[<<x, z>>] ELSE Undefined

\* terrain[0].length
RowLen(t, w) == IF w > 0 THEN w ELSE IF IsTile(At(t, 0, 0)) THEN 1 ELSE 0

\* for (z) for (x): the visiting order of both nested loops
ScanOrder(w, d) == [k \in 1 .. w * d |-> <<(k - 1) % w, (k - 1) \div w>>]

directions == << <<-1, 0>>, <<1, 0>>, <<0, -1>>, <<0, 1>> >>
directions8 == << <<-1, 0>>, <<1, 0>>, <<0, -1>>, <<0, 1>>,
                  <<-1, -1>>, <<1, -1>>, <<-1, 1>>, <<1, 1>> >>

\* mutant: the lower bound of x tested with > instead of >=
InBoundsOffByOne(x, z, w, d) == x > 0 /\ x < w /\ z >= 0 /\ z < d

InBounds(x, z, w, d) == x >= 0 /\ x < w /\ z >= 0 /\ z < d

\* the in-bounds cells around (x, z), in the order of dirs
RECURSIVE Around(_, _, _, _, _, _, _)
Around(t, x, z, w, d, dirs, k) ==
  IF k > Len(dirs) THEN <<>>
  ELSE (IF InBounds(x + dirs[k][1], z + dirs[k][2], w, d)
        THEN << At(t, x + dirs[k][1], z + dirs[k][2]) >> ELSE <<>>)
       \o Around(t, x, z, w, d, dirs, k + 1)

\* Math.max(5, Math.floor(Math.sqrt(width * height) / 3)); a negative product
\* gives NaN, and i < NaN never holds, so no seed is placed
NumSeeds(w, d) ==
  IF w * d < 0 THEN 0
  ELSE MathMax(5, CHOOSE k \in 0 .. w * d : 9 * k * k <= w * d /\ w * d < 9 * (k + 1) * (k + 1))

(***************************************************************************)
(* getValidHeightRange, adjustHeightForBiome                               *)
(***************************************************************************)
DecidedAround(t, x, z, w, d) ==
  SelectSeq(Around(t, x, z, w, d, directions, 1), LAMBDA c : c # Null)

\* mutant: the lower end is taken with Math.min instead of Math.max
getValidHeightRangeMinForMax(x, z, t, w, d) ==
  LET neighbors == DecidedAround(t, x, z, w, d)
  IN IF Len(neighbors) = 0
     THEN [min |-> MIN_HEIGHT, max |-> MAX_HEIGHT]
     ELSE LET avgHeight == SumSeq([k \in 1 .. Len(neighbors) |-> neighbors[k].height])
                             \div Len(neighbors)
              maxDiff == 150
          IN [min |-> MathMin(MIN_HEIGHT, avgHeight - maxDiff),
              max |-> MathMin(MAX_HEIGHT, avgHeight + maxDiff)]

getValidHeightRange(x, z, t, w, d) ==
  LET neighbors == DecidedAround(t, x, z, w, d)
  IN IF Len(neighbors) = 0
     THEN [min |-> MIN_HEIGHT, max |-> MAX_HEIGHT]
     ELSE LET avgHeight == SumSeq([k \in 1 .. Len(neighbors) |-> neighbors[k].height])
                             \div Len(neighbors)
              maxDiff == 150
          IN [min |-> MathMax(MIN_HEIGHT, avgHeight - maxDiff),
              max |-> MathMin(MAX_HEIGHT, avgHeight + maxDiff)]

\* r is the Math.random() draw of the MOUNTAINS and HILLS cases
adjustHeightForBiome(tile, r) ==
  CASE tile.type = "MOUNTAINS" -> [tile EXCEPT !.height = @ + (r * 50) \div 100]
    [] tile.type = "HILLS" -> [tile EXCEPT !.height = @ + (r * 30) \div 100]
    [] tile.type = "DEEP_WATER" ->
         [tile EXCEPT !.height = MathMin(@, HEIGHT_THRESHOLDS["DEEP_WATER"].max)]
    [] tile.type = "BEACH" ->
         [tile EXCEPT !.height = MathMax(HEIGHT_THRESHOLDS["BEACH"].min,
                                         MathMin(@, HEIGHT_THRESHOLDS["BEACH"].max))]
    [] OTHER -> tile

(***************************************************************************)
(* generateTerrain: allocation, climate maps, seeding                      *)
(***************************************************************************)
Init ==
  /\ phase = "idle"
  /\ width = 0 /\ depth = 0
  /\ allocated = FALSE
  /\ terrain = << >>
  /\ moistureMap = << >> /\ temperatureMap = << >>
  /\ i = 0
  /\ queue = << >>
  /\ cur = <<0, 0>> /\ dir = 5
  /\ attempt = 0
  /\ pos = 0
  /\ outcome = "none"
  /\ seeded = {} /\ fallback = {}
  /\ runs = 0 /\ previous = << >>
  /\ args = << >> /\ result = "none"
  /\ presmooth = << >> /\ order = << >> /\ expanded = << >>
  /\ validRange = << >>

Throw(error) ==
  /\ phase' = "error"
  /\ outcome' = error

\* lines 413-420: Array(width) throws RangeError for a negative width, which
\* happens only when a row is built (height >= 1)
GenerateWith(w, d, moistures, temperatures) ==
  /\ phase \in {"idle", "done"}
  /\ width' = w /\ depth' = d
  /\ IF d >= 1 /\ w < 0
     THEN /\ Throw("RangeError")
          /\ allocated' = FALSE
          /\ UNCHANGED << terrain, moistureMap, temperatureMap >>
     ELSE /\ allocated' = TRUE
          /\ terrain' = [c \in GridCells(w, d) |-> IF w > 0 THEN Null ELSE Hole]
          /\ moistureMap' \in [Cells(w, d) -> moistures]
          /\ temperatureMap' \in [Cells(w, d) -> temperatures]
          /\ phase' = "seed"
          /\ outcome' = "none"
  \* every call starts with fresh locals
  /\ i' = 0 /\ queue' = << >> /\ cur' = <<0, 0>> /\ dir' = 5
  /\ attempt' = 0 /\ pos' = 0
  /\ seeded' = {} /\ fallback' = {}
  /\ presmooth' = << >> /\ order' = << >> /\ expanded' = << >>
  /\ previous' = IF phase = "done" THEN terrain ELSE previous
  /\ UNCHANGED << runs, args, result, validRange >>

\* the first call
Generate(w, d) ==
  /\ phase = "idle"
  /\ GenerateWith(w, d, ClimateDraws, ClimateDraws)

\* lines 424-440, one iteration
SeedStepWith(rolls, hits) ==
  /\ phase = "seed"
  /\ i < NumSeeds(width, depth)
  /\ IF depth <= 0
     THEN \* moistureMap[z] is undefined
          /\ Throw("TypeError")
          /\ UNCHANGED << terrain, i, seeded, order >>
     ELSE \E x \in 0 .. MathMax(width, 1) - 1, z \in 0 .. depth - 1,
             roll \in rolls, hit \in hits :
            LET moisture == MapAt(moistureMap, x, z)
                temperature == MapAt(temperatureMap, x, z)
                initialHeight == getWeightedRandomHeight(roll[1], roll[2])
                type == determineTerrainType(initialHeight, moisture, temperature)
            IN /\ terrain' = [terrain EXCEPT ![<<x, z>>] =
                                Tile(initialHeight, type, moisture, temperature,
                                     generateFeatures(type, hit))]
               /\ seeded' = seeded \cup {<<x, z>>}
               /\ order' = IF <<x, z>> \in seeded THEN order
                                                  ELSE Append(order, <<x, z>>)
               /\ i' = i + 1
               /\ UNCHANGED << phase, outcome >>
  /\ UNCHANGED << width, depth, allocated, moistureMap, temperatureMap, queue,
                  cur, dir, attempt, pos, fallback, runs, previous, args,
                  result, presmooth, expanded, validRange >>

SeedStep == SeedStepWith(HeightRolls, SeedHits)

(***************************************************************************)
(* propagateTerrain                                                        *)
(***************************************************************************)
\* lines 528-541: the queue starts with every cell that is not null
StartPropagate ==
  /\ phase = "seed"
  /\ i >= NumSeeds(width, depth)
  /\ IF depth <= 0
     THEN \* terrain[0] is undefined
          /\ Throw("TypeError")
          /\ UNCHANGED << queue, dir >>
     ELSE /\ queue' = SelectSeq(ScanOrder(RowLen(terrain, width), depth),
                                LAMBDA c : terrain[c] # Null)
          /\ dir' = 5
          /\ phase' = "propagate"
          /\ UNCHANGED outcome
  /\ UNCHANGED << width, depth, allocated, terrain, moistureMap, temperatureMap,
                  i, cur, attempt, pos, seeded, fallback, runs, previous, args,
                  result, presmooth, order, expanded, validRange >>

\* mutant: the head of the queue is read but not removed
DequeuePeek ==
  /\ phase = "propagate"
  /\ dir = 5
  /\ queue # << >>
  /\ cur' = Head(queue)
  /\ expanded' = Append(expanded, Head(queue))
  /\ dir' = 1
  /\ attempt' = 0
  /\ UNCHANGED << phase, width, depth, allocated, terrain, moistureMap,
                  temperatureMap, i, queue, pos, outcome, seeded, fallback,
                  runs, previous, args, result, presmooth, order, validRange >>

\* mutant: queue.pop() for queue.shift(): the newest coordinate is taken
DequeueNewest ==
  /\ phase = "propagate"
  /\ dir = 5
  /\ queue # << >>
  /\ cur' = queue[Len(queue)]
  /\ queue' = SubSeq(queue, 1, Len(queue) - 1)
  /\ expanded' = Append(expanded, queue[Len(queue)])
  /\ dir' = 1
  /\ attempt' = 0
  /\ UNCHANGED << phase, width, depth, allocated, terrain, moistureMap,
                  temperatureMap, i, pos, outcome, seeded, fallback, runs,
                  previous, args, result, presmooth, order, validRange >>

\* line 544: queue.shift()
Dequeue ==
  /\ phase = "propagate"
  /\ dir = 5
  /\ queue # << >>
  /\ cur' = Head(queue)
  /\ queue' = Tail(queue)
  /\ expanded' = Append(expanded, Head(queue))
  /\ dir' = 1
  /\ attempt' = 0
  /\ UNCHANGED << phase, width, depth, allocated, terrain, moistureMap,
                  temperatureMap, i, pos, outcome, seeded, fallback, runs,
                  previous, args, result, presmooth, order, validRange >>

newX == cur[1] + directions[dir][1]
newZ == cur[2] + directions[dir][2]

\* lines 551-553
Expandable ==
  /\ dir <= 4
  /\ InBounds(newX, newZ, RowLen(terrain, width), depth)
  /\ At(terrain, newX, newZ) = Null

\* a neighbour that is outside the grid or already decided is passed over
SkipNeighbor ==
  /\ phase = "propagate"
  /\ dir <= 4
  /\ ~Expandable
  /\ dir' = dir + 1
  /\ UNCHANGED << phase, width, depth, allocated, terrain, moistureMap,
                  temperatureMap, i, queue, cur, attempt, pos, outcome, seeded,
                  fallback, runs, previous, args, result, presmooth, order,
                  expanded, validRange >>

\* lines 584-603: compatible with, and within 2 of, every decided neighbour
isValid(t, x, z, w, d, proposedType, newHeight) ==
  LET ns == DecidedAround(t, x, z, w, d)
  IN \A k \in 1 .. Len(ns) :
        /\ isValidNeighbor(proposedType, ns[k].type)
        /\ MathAbs(newHeight - ns[k].height) <= 200

\* mutant: the weighted-random height of attempt 0 is used as drawn
attemptHeightAsDrawn(a, validHeightRange, roll, r) ==
  IF a = 0
  THEN getWeightedRandomHeight(roll[1], roll[2])
  ELSE MathMax(validHeightRange.min,
               MathMin(validHeightRange.max,
                       validHeightRange.min
                         + (r * (validHeightRange.max - validHeightRange.min)) \div 100))

\* lines 564-575: the height attempt number a proposes from its draws
attemptHeight(a, validHeightRange, roll, r) ==
  LET raw == IF a = 0
             THEN getWeightedRandomHeight(roll[1], roll[2])
             ELSE validHeightRange.min
                    + (r * (validHeightRange.max - validHeightRange.min)) \div 100
  IN MathMax(validHeightRange.min, MathMin(validHeightRange.max, raw))

\* mutant: the success path gives the new tile the features of generateFeatures
AttemptWithFeatures(rolls) ==
  /\ phase = "propagate"
  /\ Expandable
  /\ attempt < COLLAPSE_ATTEMPTS
  /\ \E roll \in rolls, r \in RangeDraws, jitter \in JitterDraws,
        hit \in FeatureHits :
       LET w == RowLen(terrain, width)
           validHeightRange == getValidHeightRange(newX, newZ, terrain, w, depth)
           localMoisture == MapAt(moistureMap, newX, newZ)
           localTemperature == MapAt(temperatureMap, newX, newZ)
           newHeight == attemptHeight(attempt, validHeightRange, roll, r)
           proposedType == determineTerrainType(newHeight, localMoisture, localTemperature)
       IN IF isValid(terrain, newX, newZ, w, depth, proposedType, newHeight)
          THEN /\ terrain' = [terrain EXCEPT ![<<newX, newZ>>] =
                                adjustHeightForBiome(
                                  Tile(newHeight, proposedType, localMoisture,
                                       localTemperature,
                                       generateFeatures(proposedType, hit)),
                                  jitter)]
               /\ queue' = Append(queue, <<newX, newZ>>)
               /\ order' = Append(order, <<newX, newZ>>)
               /\ dir' = dir + 1
               /\ attempt' = 0
          ELSE /\ attempt' = attempt + 1
               /\ UNCHANGED << terrain, queue, dir, order >>
  /\ UNCHANGED << phase, width, depth, allocated, moistureMap, temperatureMap,
                  i, cur, pos, outcome, seeded, fallback, runs, previous, args,
                  result, presmooth, expanded, validRange >>

\* lines 561-622, one iteration of the retry loop
AttemptWith(rolls) ==
  /\ phase = "propagate"
  /\ Expandable
  /\ attempt < COLLAPSE_ATTEMPTS
  /\ \E roll \in rolls, r \in RangeDraws, jitter \in JitterDraws :
       LET w == RowLen(terrain, width)
           validHeightRange == getValidHeightRange(newX, newZ, terrain, w, depth)
           localMoisture == MapAt(moistureMap, newX, newZ)
           localTemperature == MapAt(temperatureMap, newX, newZ)
           newHeight == attemptHeight(attempt, validHeightRange, roll, r)
           proposedType == determineTerrainType(newHeight, localMoisture, localTemperature)
       IN IF isValid(terrain, newX, newZ, w, depth, proposedType, newHeight)
          THEN /\ terrain' = [terrain EXCEPT ![<<newX, newZ>>] =
                                adjustHeightForBiome(
                                  Tile(newHeight, proposedType, localMoisture,
                                       localTemperature, << >>), jitter)]
               /\ queue' = Append(queue, <<newX, newZ>>)
               /\ order' = Append(order, <<newX, newZ>>)
               /\ dir' = dir + 1
               /\ attempt' = 0
          ELSE /\ attempt' = attempt + 1
               /\ UNCHANGED << terrain, queue, dir, order >>
  /\ UNCHANGED << phase, width, depth, allocated, moistureMap, temperatureMap,
                  i, cur, pos, outcome, seeded, fallback, runs, previous, args,
                  result, presmooth, expanded, validRange >>

Attempt == AttemptWith(HeightRolls)

\* mutant: the retry loop gives up one attempt early
FallbackEarly ==
  /\ phase = "propagate"
  /\ Expandable
  /\ attempt >= COLLAPSE_ATTEMPTS - 1
  /\ LET w == RowLen(terrain, width)
         validHeightRange == getValidHeightRange(newX, newZ, terrain, w, depth)
         localMoisture == MapAt(moistureMap, newX, newZ)
         localTemperature == MapAt(temperatureMap, newX, newZ)
         fallbackHeight == (validHeightRange.min + validHeightRange.max) \div 2
         fallbackType == determineTerrainType(fallbackHeight, localMoisture,
                                              localTemperature)
     IN terrain' = [terrain EXCEPT ![<<newX, newZ>>] =
                      Tile(fallbackHeight, fallbackType, localMoisture,
                           localTemperature, << >>)]
  /\ queue' = Append(queue, <<newX, newZ>>)
  /\ fallback' = fallback \cup {<<newX, newZ>>}
  /\ order' = Append(order, <<newX, newZ>>)
  /\ dir' = dir + 1
  /\ attempt' = 0
  /\ UNCHANGED << phase, width, depth, allocated, moistureMap, temperatureMap,
                  i, cur, pos, outcome, seeded, runs, previous, args, result,
                  presmooth, expanded, validRange >>

\* lines 624-642: every attempt was rejected
Fallback ==
  /\ phase = "propagate"
  /\ Expandable
  /\ attempt >= COLLAPSE_ATTEMPTS
  /\ LET w == RowLen(terrain, width)
         validHeightRange == getValidHeightRange(newX, newZ, terrain, w, depth)
         localMoisture == MapAt(moistureMap, newX, newZ)
         localTemperature == MapAt(temperatureMap, newX, newZ)
         fallbackHeight == (validHeightRange.min + validHeightRange.max) \div 2
         fallbackType == determineTerrainType(fallbackHeight, localMoisture,
                                              localTemperature)
     IN terrain' = [terrain EXCEPT ![<<newX, newZ>>] =
                      Tile(fallbackHeight, fallbackType, localMoisture,
                           localTemperature, << >>)]
  /\ queue' = Append(queue, <<newX, newZ>>)
  /\ fallback' = fallback \cup {<<newX, newZ>>}
  /\ order' = Append(order, <<newX, newZ>>)
  /\ dir' = dir + 1
  /\ attempt' = 0
  /\ UNCHANGED << phase, width, depth, allocated, moistureMap, temperatureMap,
                  i, cur, pos, outcome, seeded, runs, previous, args, result,
                  presmooth, expanded, validRange >>

\* line 543: the loop ends when the queue is empty; postProcessTerrain starts
PropagateDone ==
  /\ phase = "propagate"
  /\ dir = 5
  /\ queue = << >>
  /\ phase' = "smooth"
  /\ pos' = 0
  /\ presmooth' = terrain
  /\ UNCHANGED << width, depth, allocated, terrain, moistureMap, temperatureMap,
                  i, queue, cur, dir, attempt, outcome, seeded, fallback, runs,
                  previous, args, result, order, expanded, validRange >>

(***************************************************************************)
(* postProcessTerrain                                                      *)
(***************************************************************************)
\* mutant: a cell too far from its neighbours' average is cleared for another
\* collapse instead of being nudged
smoothTileClearing(t, x, z, w, d) ==
  LET current == t[<<x, z>>]
      neighbors == Around(t, x, z, w, d, directions, 1)
      n == Len(neighbors)
      averageHeight == JsDiv(SumSeq([k \in 1 .. n |-> neighbors[k].height]), n)
  IN IF IsNum(averageHeight) /\ MathAbs(current.height - averageHeight) > 200
     THEN Null ELSE current

\* lines 758-787
smoothTile(t, x, z, w, d) ==
  LET current == t[<<x, z>>]
      neighbors == Around(t, x, z, w, d, directions, 1)
      n == Len(neighbors)
      averageHeight == JsDiv(SumSeq([k \in 1 .. n |-> neighbors[k].height]), n)
      heightDiff == IF IsNum(averageHeight)
                    THEN MathAbs(current.height - averageHeight) ELSE NaN
      smoothed == IF JsGt(heightDiff, 200)
                  THEN LET h == averageHeight
                                  + (IF current.height > averageHeight THEN 100 ELSE 0 - 100)
                       IN [current EXCEPT
                             !.height = h,
                             !.type = determineTerrainType(h, current.moisture,
                                                           current.temperature)]
                  ELSE current
  IN [smoothed EXCEPT
        !.moisture = JsDiv(JsAdd(current.moisture,
                       JsDiv(SumSeq([k \in 1 .. n |-> neighbors[k].moisture]), n)), 2),
        !.temperature = JsDiv(JsAdd(current.temperature,
                       JsDiv(SumSeq([k \in 1 .. n |-> neighbors[k].temperature]), n)), 2)]

\* the cell the current pass visits next
posCell == ScanOrder(RowLen(terrain, width), depth)[pos + 1]
\* reading a field of a cell that is not a tile throws
Readable(t, x, z, w, d, dirs) ==
  /\ IsTile(At(t, x, z))
  /\ \A k \in 1 .. Len(Around(t, x, z, w, d, dirs, 1)) :
        IsTile(Around(t, x, z, w, d, dirs, 1)[k])

\* lines 744-748, one iteration
SmoothStep ==
  /\ phase = "smooth"
  /\ pos < RowLen(terrain, width) * depth
  /\ LET w == RowLen(terrain, width)
         x == posCell[1]
         z == posCell[2]
     IN IF Readable(terrain, x, z, w, depth, directions)
        THEN /\ terrain' = [terrain EXCEPT ![<<x, z>>] = smoothTile(terrain, x, z, w, depth)]
             /\ pos' = pos + 1
             /\ UNCHANGED << phase, outcome >>
        ELSE /\ Throw("TypeError")
             /\ UNCHANGED << terrain, pos >>
  /\ UNCHANGED << width, depth, allocated, moistureMap, temperatureMap, i,
                  queue, cur, dir, attempt, seeded, fallback, runs, previous,
                  args, result, presmooth, order, expanded, validRange >>

SmoothDone ==
  /\ phase = "smooth"
  /\ pos >= RowLen(terrain, width) * depth
  /\ phase' = "feature"
  /\ pos' = 0
  /\ UNCHANGED << width, depth, allocated, terrain, moistureMap, temperatureMap,
                  i, queue, cur, dir, attempt, outcome, seeded, fallback, runs,
                  previous, args, result, presmooth, order, expanded, validRange >>

RECURSIVE Flatten(_)
Flatten(ss) == IF ss = << >> THEN << >> ELSE Head(ss) \o Flatten(Tail(ss))

includes(s, e) == \E k \in 1 .. Len(s) : s[k] = e

\* mutant: the cave rule assigns the feature list instead of pushing onto it
addContextualFeaturesAssigning(t, x, z, w, d, castle, crystal, cave, temple) ==
  LET current == t[<<x, z>>]
      around == Around(t, x, z, w, d, directions8, 1)
      nearbyFeatures == Flatten([k \in 1 .. Len(around) |-> around[k].features])
      f1 == IF /\ current.type \in {"HILLS", "MOUNTAINS"}
               /\ includes(nearbyFeatures, "VILLAGE")
               /\ ~includes(nearbyFeatures, "CASTLE")
               /\ castle
            THEN Append(current.features, "CASTLE") ELSE current.features
      f2 == IF /\ includes(nearbyFeatures, "ANCIENT_RUINS")
               /\ crystal
               /\ ~includes(f1, "MAGICAL_CRYSTAL")
            THEN Append(f1, "MAGICAL_CRYSTAL") ELSE f1
      f3 == IF /\ current.type = "MOUNTAINS"
               /\ cave
               /\ ~includes(f2, "CAVE_ENTRANCE")
            THEN << "CAVE_ENTRANCE" >> ELSE f2
      f4 == IF /\ includes(nearbyFeatures, "STANDING_STONES")
               /\ temple
               /\ ~includes(f3, "TEMPLE")
            THEN Append(f3, "TEMPLE") ELSE f3
  IN [current EXCEPT !.features = f4]

\* mutant: the castle rule looks for CASTLE on the cell itself instead of on
\* the cells around it
addContextualFeaturesOwnCastle(t, x, z, w, d, castle, crystal, cave, temple) ==
  LET current == t[<<x, z>>]
      around == Around(t, x, z, w, d, directions8, 1)
      nearbyFeatures == Flatten([k \in 1 .. Len(around) |-> around[k].features])
      f1 == IF /\ current.type \in {"HILLS", "MOUNTAINS"}
               /\ includes(nearbyFeatures, "VILLAGE")
               /\ ~includes(current.features, "CASTLE")
               /\ castle
            THEN Append(current.features, "CASTLE") ELSE current.features
      f2 == IF /\ includes(nearbyFeatures, "ANCIENT_RUINS")
               /\ crystal
               /\ ~includes(f1, "MAGICAL_CRYSTAL")
            THEN Append(f1, "MAGICAL_CRYSTAL") ELSE f1
      f3 == IF /\ current.type = "MOUNTAINS"
               /\ cave
               /\ ~includes(f2, "CAVE_ENTRANCE")
            THEN Append(f2, "CAVE_ENTRANCE") ELSE f2
      f4 == IF /\ includes(nearbyFeatures, "STANDING_STONES")
               /\ temple
               /\ ~includes(f3, "TEMPLE")
            THEN Append(f3, "TEMPLE") ELSE f3
  IN [current EXCEPT !.features = f4]

\* lines 789-835; the four booleans are the outcomes of the Math.random() tests
addContextualFeatures(t, x, z, w, d, castle, crystal, cave, temple) ==
  LET current == t[<<x, z>>]
      around == Around(t, x, z, w, d, directions8, 1)
      nearbyFeatures == Flatten([k \in 1 .. Len(around) |-> around[k].features])
      f1 == IF /\ current.type \in {"HILLS", "MOUNTAINS"}
               /\ includes(nearbyFeatures, "VILLAGE")
               /\ ~includes(nearbyFeatures, "CASTLE")
               /\ castle
            THEN Append(current.features, "CASTLE") ELSE current.features
      f2 == IF /\ includes(nearbyFeatures, "ANCIENT_RUINS")
               /\ crystal
               /\ ~includes(f1, "MAGICAL_CRYSTAL")
            THEN Append(f1, "MAGICAL_CRYSTAL") ELSE f1
      f3 == IF /\ current.type = "MOUNTAINS"
               /\ cave
               /\ ~includes(f2, "CAVE_ENTRANCE")
            THEN Append(f2, "CAVE_ENTRANCE") ELSE f2
      f4 == IF /\ includes(nearbyFeatures, "STANDING_STONES")
               /\ temple
               /\ ~includes(f3, "TEMPLE")
            THEN Append(f3, "TEMPLE") ELSE f3
  IN [current EXCEPT !.features = f4]

\* lines 751-755, one iteration
FeatureStep ==
  /\ phase = "feature"
  /\ pos < RowLen(terrain, width) * depth
  /\ LET w == RowLen(terrain, width)
         x == posCell[1]
         z == posCell[2]
     IN IF Readable(terrain, x, z, w, depth, directions8)
        THEN /\ \E tile \in {addContextualFeatures(terrain, x, z, w, depth,
                                                     castle, crystal, cave, temple) :
                                 castle, crystal, cave, temple \in BOOLEAN} :
                  terrain' = [terrain EXCEPT ![<<x, z>>] = tile]
             /\ pos' = pos + 1
             /\ UNCHANGED << phase, outcome >>
        ELSE /\ Throw("TypeError")
             /\ UNCHANGED << terrain, pos >>
  /\ UNCHANGED << width, depth, allocated, moistureMap, temperatureMap, i,
                  queue, cur, dir, attempt, seeded, fallback, runs, previous,
                  args, result, presmooth, order, expanded, validRange >>

\* line 448: return terrain
Return ==
  /\ phase = "feature"
  /\ pos >= RowLen(terrain, width) * depth
  /\ phase' = "done"
  /\ outcome' = "ok"
  /\ runs' = runs + 1
  /\ UNCHANGED << width, depth, allocated, terrain, moistureMap, temperatureMap,
                  i, queue, cur, dir, attempt, pos, seeded, fallback, previous,
                  args, result, presmooth, order, expanded, validRange >>

Next ==
  \/ \E wd \in DimArgs : Generate(wd[1], wd[2])
  \/ SeedStep
  \/ StartPropagate
  \/ Dequeue
  \/ SkipNeighbor
  \/ Attempt
  \/ Fallback
  \/ PropagateDone
  \/ SmoothStep
  \/ SmoothDone
  \/ FeatureStep
  \/ Return

Spec == Init /\ [][Next]_vars

(***************************************************************************)
(* A caller that calls generateTerrain again with the same arguments, as   *)
(* TerrainRenderer.render does each time it is invoked (line 219)          *)
(***************************************************************************)
CallFirst ==
  /\ phase = "idle"
  /\ \E wd \in RerunArgs :
        GenerateWith(wd[1], wd[2], RerunMoistures, RerunTemperatures)

CallAgain ==
  /\ phase = "done"
  /\ runs < MaxRuns
  /\ GenerateWith(width, depth, RerunMoistures, RerunTemperatures)

NextRerun ==
  \/ CallFirst
  \/ CallAgain
  \/ SeedStepWith(RerunRolls, SeedHits)
  \/ StartPropagate
  \/ Dequeue
  \/ SkipNeighbor
  \/ AttemptWith(RerunRolls)
  \/ Fallback
  \/ PropagateDone
  \/ SmoothStep
  \/ SmoothDone
  \/ FeatureStep
  \/ Return

SpecRerun == Init /\ [][NextRerun]_vars

(***************************************************************************)
(* generateTerrain(3, 1): one row of three cells                           *)
(***************************************************************************)
GenerateRow ==
  /\ phase = "idle"
  /\ \E wd \in RowArgs : GenerateWith(wd[1], wd[2], RowClimates, RowClimates)

NextRow ==
  \/ GenerateRow
  \/ SeedStepWith(RowRolls, SeedHits)
  \/ StartPropagate
  \/ Dequeue
  \/ SkipNeighbor
  \/ AttemptWith(RowRolls)
  \/ Fallback
  \/ PropagateDone
  \/ SmoothStep
  \/ SmoothDone
  \/ FeatureStep
  \/ Return

SpecRow == Init /\ [][NextRow]_vars

(***************************************************************************)
(* generateTerrain(2, 1) with seeds that generateFeatures gives features   *)
(***************************************************************************)
GenerateFeatured ==
  /\ phase = "idle"
  /\ \E wd \in FeatureArgs :
        GenerateWith(wd[1], wd[2], FeatureMoistures, FeatureTemperatures)

NextFeatures ==
  \/ GenerateFeatured
  \/ SeedStepWith(FeatureRolls, FeatureHits)
  \/ StartPropagate
  \/ Dequeue
  \/ SkipNeighbor
  \/ AttemptWith(FeatureRolls)
  \/ Fallback
  \/ PropagateDone
  \/ SmoothStep
  \/ SmoothDone
  \/ FeatureStep
  \/ Return

SpecFeatures == Init /\ [][NextFeatures]_vars

(***************************************************************************)
(* generateTerrain(3, 1) with seeds that generateFeatures gives features   *)
(***************************************************************************)
GenerateCastleRow ==
  /\ phase = "idle"
  /\ \E wd \in CastleArgs :
        GenerateWith(wd[1], wd[2], CastleMoistures, CastleTemperatures)

NextCastle ==
  \/ GenerateCastleRow
  \/ SeedStepWith(CastleRolls, FeatureHits)
  \/ StartPropagate
  \/ Dequeue
  \/ SkipNeighbor
  \/ AttemptWith(CastleRolls)
  \/ Fallback
  \/ PropagateDone
  \/ SmoothStep
  \/ SmoothDone
  \/ FeatureStep
  \/ Return

SpecCastle == Init /\ [][NextCastle]_vars

(***************************************************************************)
(* determineTerrainType called on its own                                  *)
(***************************************************************************)
InitClassify ==
  /\ phase = "idle"
  /\ width = 0 /\ depth = 0
  /\ allocated = FALSE
  /\ terrain = << >>
  /\ moistureMap = << >> /\ temperatureMap = << >>
  /\ i = 0
  /\ queue = << >>
  /\ cur = <<0, 0>> /\ dir = 5
  /\ attempt = 0
  /\ pos = 0
  /\ outcome = "none"
  /\ seeded = {} /\ fallback = {}
  /\ runs = 0 /\ previous = << >>
  /\ args \in HeightInputs \X ClimateInputs \X ClimateInputs
  /\ result = "none"
  /\ presmooth = << >> /\ order = << >> /\ expanded = << >>
  /\ validRange = << >>

Classify ==
  /\ result = "none"
  /\ args # << >>
  /\ result' = determineTerrainType(args[1], args[2], args[3])
  /\ UNCHANGED << phase, width, depth, allocated, terrain, moistureMap,
                  temperatureMap, i, queue, cur, dir, attempt, pos, outcome,
                  seeded, fallback, runs, previous, args, presmooth, order,
                  expanded, validRange >>

SpecClassify == InitClassify /\ [][Classify]_vars

(***************************************************************************)
(* isValidNeighbor called on its own, for a pair of types in both orders   *)
(***************************************************************************)
InitCompatible ==
  /\ phase = "idle"
  /\ width = 0 /\ depth = 0
  /\ allocated = FALSE
  /\ terrain = << >>
  /\ moistureMap = << >> /\ temperatureMap = << >>
  /\ i = 0
  /\ queue = << >>
  /\ cur = <<0, 0>> /\ dir = 5
  /\ attempt = 0
  /\ pos = 0
  /\ outcome = "none"
  /\ seeded = {} /\ fallback = {}
  /\ runs = 0 /\ previous = << >>
  /\ args \in TerrainTypes \X TerrainTypes
  /\ result = << >>
  /\ presmooth = << >> /\ order = << >> /\ expanded = << >>
  /\ validRange = << >>

\* the first call is isValidNeighbor(a, b), the second isValidNeighbor(b, a)
Compatible ==
  /\ Len(result) < 2
  /\ result' = Append(result, IF result = << >>
                              THEN isValidNeighbor(args[1], args[2])
                              ELSE isValidNeighbor(args[2], args[1]))
  /\ UNCHANGED << phase, width, depth, allocated, terrain, moistureMap,
                  temperatureMap, i, queue, cur, dir, attempt, pos, outcome,
                  seeded, fallback, runs, previous, args, presmooth, order,
                  expanded, validRange >>

SpecCompatible == InitCompatible /\ [][Compatible]_vars

(***************************************************************************)
(* The simple variant: class WaveFunctionCollapse of                       *)
(* src/src/WaveFunctionCollapse.ts.  Tiles carry a height and a type only. *)
(***************************************************************************)
\* enum TerrainType, in declaration order
SimpleTerrainType == << "WATER", "BEACH", "PLAINS", "HILLS", "MOUNTAINS" >>

SimpleCOLLAPSE_ATTEMPTS == 5
SimpleMIN_HEIGHT == 0
SimpleMAX_HEIGHT == 1000

SimpleHEIGHT_THRESHOLDS ==
  [ WATER     |-> [min |-> Fix(0), max |-> Fix(2)],
    BEACH     |-> [min |-> Fix(2), max |-> Fix(3)],
    PLAINS    |-> [min |-> Fix(3), max |-> Fix(5)],
    HILLS     |-> [min |-> Fix(5), max |-> Fix(8)],
    MOUNTAINS |-> [min |-> Fix(8), max |-> Fix(10)] ]

SimpleVALID_NEIGHBORS ==
  [ WATER     |-> {"WATER", "BEACH"},
    BEACH     |-> {"WATER", "BEACH", "PLAINS"},
    PLAINS    |-> {"BEACH", "PLAINS", "HILLS"},
    HILLS     |-> {"PLAINS", "HILLS", "MOUNTAINS"},
    MOUNTAINS |-> {"HILLS"} ]

SimpleTERRAIN_WEIGHTS ==
  [ WATER |-> 15, BEACH |-> 10, PLAINS |-> 35, HILLS |-> 35, MOUNTAINS |-> 5 ]

SimpleTile(h, ty) == [kind |-> "tile", height |-> h, type |-> ty]

normalizeHeight(height) ==
  MathMax(SimpleMIN_HEIGHT, MathMin(SimpleMAX_HEIGHT, height))

\* the first type, in declaration order, whose closed range holds the height
RECURSIVE FirstTypeHolding(_, _)
FirstTypeHolding(height, k) ==
  IF k > Len(SimpleTerrainType) THEN "PLAINS"
  ELSE LET range == SimpleHEIGHT_THRESHOLDS[SimpleTerrainType[k]]
       IN IF height >= range.min /\ height <= range.max
          THEN SimpleTerrainType[k]
          ELSE FirstTypeHolding(height, k + 1)

getTerrainTypeForHeight(height) == FirstTypeHolding(height, 1)

SimpleIsValidNeighbor(current, neighbor) == neighbor \in SimpleVALID_NEIGHBORS[current]

RECURSIVE SimpleWalkWeights(_, _, _, _)
SimpleWalkWeights(k, cumulativeProbability, r1, r2) ==
  IF k > Len(SimpleTerrainType) THEN SimpleHEIGHT_THRESHOLDS["PLAINS"].min
  ELSE LET cum == cumulativeProbability + SimpleTERRAIN_WEIGHTS[SimpleTerrainType[k]]
           range == SimpleHEIGHT_THRESHOLDS[SimpleTerrainType[k]]
       IN IF r1 < cum
          THEN range.min + (r2 * (range.max - range.min)) \div 100
          ELSE SimpleWalkWeights(k + 1, cum, r1, r2)

SimpleGetWeightedRandomHeight(r1, r2) == SimpleWalkWeights(1, 0, r1, r2)

\* lines 76-118; capped is the outcome of Math.random() > mountainProbability
SimpleGetValidHeightRange(x, z, t, w, d, capped) ==
  LET definedNeighbors == DecidedAround(t, x, z, w, d)
  IN IF Len(definedNeighbors) = 0
     THEN [min |-> SimpleMIN_HEIGHT, max |-> SimpleMAX_HEIGHT]
     ELSE LET avgHeight == SumSeq([k \in 1 .. Len(definedNeighbors) |->
                                      definedNeighbors[k].height])
                             \div Len(definedNeighbors)
              maxDiff == 150
              baseMin == normalizeHeight(avgHeight - maxDiff)
              baseMax == normalizeHeight(avgHeight + maxDiff)
          IN IF baseMax > SimpleHEIGHT_THRESHOLDS["MOUNTAINS"].min /\ capped
             THEN [min |-> baseMin, max |-> SimpleHEIGHT_THRESHOLDS["HILLS"].max]
             ELSE [min |-> baseMin, max |-> baseMax]

\* Math.max(3, Math.floor(Math.sqrt(width * height) / 4))
SimpleNumSeeds(w, d) ==
  MathMax(3, CHOOSE k \in 0 .. w * d :
               16 * k * k <= w * d /\ w * d < 16 * (k + 1) * (k + 1))

\* lines 120-124: the grid starts all null
SimpleGenerate(w, d) ==
  /\ phase = "idle"
  /\ width' = w /\ depth' = d
  /\ allocated' = TRUE
  /\ terrain' = [c \in Cells(w, d) |-> Null]
  /\ phase' = "seed"
  /\ i' = 0
  /\ UNCHANGED << moistureMap, temperatureMap, queue, cur, dir, attempt, pos,
                  outcome, seeded, fallback, runs, previous, args, result,
                  presmooth, order, expanded, validRange >>

\* lines 128-136, one iteration: the cell is written whether or not it
\* already holds a seed
SimpleSeedStep ==
  /\ phase = "seed"
  /\ i < SimpleNumSeeds(width, depth)
  /\ \E x \in 0 .. width - 1, z \in 0 .. depth - 1, roll \in SimpleRolls :
       LET initialHeight == SimpleGetWeightedRandomHeight(roll[1], roll[2])
       IN /\ terrain' = [terrain EXCEPT ![<<x, z>>] =
                           SimpleTile(initialHeight,
                                      getTerrainTypeForHeight(initialHeight))]
          /\ seeded' = seeded \cup {<<x, z>>}
          /\ order' = IF <<x, z>> \in seeded THEN order
                                             ELSE Append(order, <<x, z>>)
  /\ i' = i + 1
  /\ UNCHANGED << phase, width, depth, allocated, moistureMap, temperatureMap,
                  queue, cur, dir, attempt, pos, outcome, fallback, runs,
                  previous, args, result, presmooth, expanded, validRange >>

\* line 139: the seeding loop is over and the queue is created empty
SimpleSeedDone ==
  /\ phase = "seed"
  /\ i >= SimpleNumSeeds(width, depth)
  /\ phase' = "enqueue"
  /\ queue' = << >>
  /\ i' = 0
  /\ UNCHANGED << width, depth, allocated, terrain, moistureMap,
                  temperatureMap, cur, dir, attempt, pos, outcome, seeded,
                  fallback, runs, previous, args, result, presmooth, order,
                  expanded, validRange >>

\* lines 140-142, one iteration: a freshly drawn coordinate is pushed
SimpleEnqueueStep ==
  /\ phase = "enqueue"
  /\ i < SimpleNumSeeds(width, depth)
  /\ \E x \in 0 .. width - 1, z \in 0 .. depth - 1 :
       queue' = Append(queue, <<x, z>>)
  /\ i' = i + 1
  /\ UNCHANGED << phase, width, depth, allocated, terrain, moistureMap,
                  temperatureMap, cur, dir, attempt, pos, outcome, seeded,
                  fallback, runs, previous, args, result, presmooth, order,
                  expanded, validRange >>

\* line 144: the propagation loop is entered
SimpleStartPropagate ==
  /\ phase = "enqueue"
  /\ i >= SimpleNumSeeds(width, depth)
  /\ phase' = "propagate"
  /\ dir' = 5
  /\ UNCHANGED << width, depth, allocated, terrain, moistureMap,
                  temperatureMap, i, queue, cur, attempt, pos, outcome,
                  seeded, fallback, runs, previous, args, result, presmooth,
                  order, expanded, validRange >>

\* line 145: queue.shift()
SimpleDequeue ==
  /\ phase = "propagate"
  /\ dir = 5
  /\ queue # << >>
  /\ cur' = Head(queue)
  /\ queue' = Tail(queue)
  /\ expanded' = Append(expanded, Head(queue))
  /\ dir' = 1
  /\ attempt' = 0
  /\ UNCHANGED << phase, width, depth, allocated, terrain, moistureMap,
                  temperatureMap, i, pos, outcome, seeded, fallback, runs,
                  previous, args, result, presmooth, order, validRange >>

\* lines 152-154
SimpleExpandable ==
  /\ dir <= 4
  /\ InBounds(newX, newZ, width, depth)
  /\ terrain[<<newX, newZ>>] = Null

SimpleSkipNeighbor ==
  /\ phase = "propagate"
  /\ dir <= 4
  /\ ~SimpleExpandable
  /\ dir' = dir + 1
  /\ UNCHANGED << phase, width, depth, allocated, terrain, moistureMap,
                  temperatureMap, i, queue, cur, attempt, pos, outcome,
                  seeded, fallback, runs, previous, args, result, presmooth,
                  order, expanded, validRange >>

\* lines 167-179: compatible with every decided neighbour
SimpleIsValid(t, x, z, w, d, newType) ==
  LET ns == DecidedAround(t, x, z, w, d)
  IN \A k \in 1 .. Len(ns) : SimpleIsValidNeighbor(newType, ns[k].type)

\* lines 161-163: the height attempt number a proposes from its draws
SimpleAttemptHeight(a, range, roll, r) ==
  IF a = 0
  THEN SimpleGetWeightedRandomHeight(roll[1], roll[2])
  ELSE normalizeHeight(range.min + (r * (range.max - range.min)) \div 100)

\* lines 156-186, one iteration of the retry loop; the range is computed
\* once, before the first attempt
SimpleAttempt ==
  /\ phase = "propagate"
  /\ SimpleExpandable
  /\ attempt < SimpleCOLLAPSE_ATTEMPTS
  /\ \E roll \in SimpleRolls, r \in RangeDraws, capped \in BOOLEAN :
       LET range == IF attempt = 0
                    THEN SimpleGetValidHeightRange(newX, newZ, terrain, width,
                                                   depth, capped)
                    ELSE validRange
           newHeight == SimpleAttemptHeight(attempt, range, roll, r)
           newType == getTerrainTypeForHeight(newHeight)
       IN IF SimpleIsValid(terrain, newX, newZ, width, depth, newType)
          THEN /\ terrain' = [terrain EXCEPT ![<<newX, newZ>>] =
                                SimpleTile(newHeight, newType)]
               /\ queue' = Append(queue, <<newX, newZ>>)
               /\ order' = Append(order, <<newX, newZ>>)
               /\ dir' = dir + 1
               /\ attempt' = 0
               /\ validRange' = << >>
          ELSE /\ attempt' = attempt + 1
               /\ validRange' = range
               /\ UNCHANGED << terrain, queue, dir, order >>
  /\ UNCHANGED << phase, width, depth, allocated, moistureMap, temperatureMap,
                  i, cur, pos, outcome, seeded, fallback, runs, previous,
                  args, result, presmooth, expanded >>

\* lines 189-196: every attempt was rejected
SimpleFallback ==
  /\ phase = "propagate"
  /\ SimpleExpandable
  /\ attempt >= SimpleCOLLAPSE_ATTEMPTS
  /\ LET fallbackHeight == normalizeHeight((validRange.min + validRange.max) \div 2)
     IN terrain' = [terrain EXCEPT ![<<newX, newZ>>] =
                      SimpleTile(fallbackHeight,
                                 getTerrainTypeForHeight(fallbackHeight))]
  /\ queue' = Append(queue, <<newX, newZ>>)
  /\ fallback' = fallback \cup {<<newX, newZ>>}
  /\ order' = Append(order, <<newX, newZ>>)
  /\ dir' = dir + 1
  /\ attempt' = 0
  /\ validRange' = << >>
  /\ UNCHANGED << phase, width, depth, allocated, moistureMap, temperatureMap,
                  i, cur, pos, outcome, seeded, runs, previous, args, result,
                  presmooth, expanded >>

\* lines 144, 202: the loop ends when the queue is empty; smoothTerrain starts
SimplePropagateDone ==
  /\ phase = "propagate"
  /\ dir = 5
  /\ queue = << >>
  /\ phase' = "smooth"
  /\ pos' = 0
  /\ presmooth' = terrain
  /\ UNCHANGED << width, depth, allocated, terrain, moistureMap,
                  temperatureMap, i, queue, cur, dir, attempt, outcome,
                  seeded, fallback, runs, previous, args, result, order,
                  expanded, validRange >>

\* lines 218-226: the HILLS cells among the in-bounds cells around (x, z)
hillCount(t, x, z, w, d) ==
  Len(SelectSeq(Around(t, x, z, w, d, directions, 1),
                LAMBDA c : c.type = "HILLS"))

\* mutant: a mountain is kept when it has one HILLS neighbour
SimpleSmoothTileOneHill(t, x, z, w, d) ==
  IF t[<<x, z>>].type = "MOUNTAINS" /\ hillCount(t, x, z, w, d) < 1
  THEN SimpleTile(SimpleHEIGHT_THRESHOLDS["HILLS"].max - 50, "HILLS")
  ELSE t[<<x, z>>]

\* lines 213-233: the tile smoothTerrain leaves at (x, z)
SimpleSmoothTile(t, x, z, w, d) ==
  IF t[<<x, z>>].type = "MOUNTAINS" /\ hillCount(t, x, z, w, d) < 2
  THEN SimpleTile(SimpleHEIGHT_THRESHOLDS["HILLS"].max - 50, "HILLS")
  ELSE t[<<x, z>>]

\* reading .type of a null cell throws: the cell itself, and the cells
\* around a MOUNTAINS cell
SimpleReadable(t, x, z, w, d) ==
  /\ IsTile(t[<<x, z>>])
  /\ t[<<x, z>>].type = "MOUNTAINS"
       => \A k \in 1 .. Len(Around(t, x, z, w, d, directions, 1)) :
             IsTile(Around(t, x, z, w, d, directions, 1)[k])

\* lines 211-235, one iteration
SimpleSmoothStep ==
  /\ phase = "smooth"
  /\ pos < width * depth
  /\ LET x == ScanOrder(width, depth)[pos + 1][1]
         z == ScanOrder(width, depth)[pos + 1][2]
     IN IF SimpleReadable(terrain, x, z, width, depth)
        THEN /\ terrain' = [terrain EXCEPT ![<<x, z>>] =
                              SimpleSmoothTile(terrain, x, z, width, depth)]
             /\ pos' = pos + 1
             /\ UNCHANGED << phase, outcome >>
        ELSE /\ Throw("TypeError")
             /\ UNCHANGED << terrain, pos >>
  /\ UNCHANGED << width, depth, allocated, moistureMap, temperatureMap, i,
                  queue, cur, dir, attempt, seeded, fallback, runs, previous,
                  args, result, presmooth, order, expanded, validRange >>

\* line 204: return terrain
SimpleReturn ==
  /\ phase = "smooth"
  /\ pos >= width * depth
  /\ phase' = "done"
  /\ outcome' = "ok"
  /\ runs' = runs + 1
  /\ UNCHANGED << width, depth, allocated, terrain, moistureMap,
                  temperatureMap, i, queue, cur, dir, attempt, pos, seeded,
                  fallback, previous, args, result, presmooth, order,
                  expanded, validRange >>

NextSimple ==
  \/ \E wd \in SimpleDimArgs : SimpleGenerate(wd[1], wd[2])
  \/ SimpleSeedStep
  \/ SimpleSeedDone
  \/ SimpleEnqueueStep
  \/ SimpleStartPropagate
  \/ SimpleDequeue
  \/ SimpleSkipNeighbor
  \/ SimpleAttempt
  \/ SimpleFallback
  \/ SimplePropagateDone
  \/ SimpleSmoothStep
  \/ SimpleReturn

SpecSimple == Init /\ [][NextSimple]_vars

(***************************************************************************)
(* Properties                                                              *)
(***************************************************************************)
Decided(c) == c \in DOMAIN terrain /\ IsTile(terrain[c])
ValidArgs == width >= 1 /\ depth >= 1
Adjacent(a, b) == MathAbs(a[1] - b[1]) + MathAbs(a[2] - b[2]) = 1

\* C1: for width >= 1 and depth >= 1 no cell is null once propagateTerrain's
\* queue has emptied: the smoothing pass, the feature pass and the caller see
\* a fully decided grid.
C1_NoNullAfterPropagation ==
  (ValidArgs /\ phase \in {"smooth", "feature", "done"})
    => \A c \in Cells(width, depth) : Decided(c)

\* the queue has just emptied on a two-cell grid of which one cell was grown
\* by propagation
C1_Witness ==
  /\ phase = "smooth" /\ pos = 0
  /\ Cardinality(Cells(width, depth)) = 2
  /\ Cardinality(seeded) = 1
  /\ \A c \in Cells(width, depth) : Decided(c)

\* C3 (as claimed): after generateTerrain every cell that the fallback path
\* did not assign has its height inside HEIGHT_THRESHOLDS[type].
C3_HeightWithinTypeRange ==
  (ValidArgs /\ phase = "done")
    => \A c \in Cells(width, depth) \ fallback :
          /\ HEIGHT_THRESHOLDS[terrain[c].type].min <= terrain[c].height
          /\ terrain[c].height <= HEIGHT_THRESHOLDS[terrain[c].type].max

\* C4 (as claimed): after generateTerrain every two 4-adjacent cells that the
\* fallback path did not assign have compatible types.
C4_AdjacentCompatible ==
  (ValidArgs /\ phase = "done")
    => \A a, b \in Cells(width, depth) \ fallback :
          Adjacent(a, b) => isValidNeighbor(terrain[a].type, terrain[b].type)

\* C5 (as claimed): a call with width <= 0 or depth <= 0 ends in an
\* InvalidDimensions error before anything is allocated or seeded.
C5_InvalidDimensionsRejected ==
  (phase # "idle" /\ (width <= 0 \/ depth <= 0))
    => /\ phase = "error"
       /\ outcome = "InvalidDimensions"
       /\ ~allocated
       /\ seeded = {}

\* C7 (as claimed): after generateTerrain on any grid of at least one cell
\* every tile's moisture and temperature are numbers in [0, 1].
C7_ClimateInUnitInterval ==
  (ValidArgs /\ phase = "done")
    => \A c \in Cells(width, depth) :
          /\ terrain[c].moisture \in 0 .. 100
          /\ terrain[c].temperature \in 0 .. 100

\* C8: in every state of a run every decided cell's height is within
\* [MIN_HEIGHT, MAX_HEIGHT].
C8_HeightWithinGlobalBound ==
  \A c \in DOMAIN terrain :
     IsTile(terrain[c])
       => MIN_HEIGHT <= terrain[c].height /\ terrain[c].height <= MAX_HEIGHT

\* a finished run with a success-path hill whose height carries the jitter
C8_Witness ==
  /\ phase = "done"
  /\ \E c \in Cells(width, depth) \ (seeded \cup fallback) :
        terrain[c].type = "HILLS" /\ terrain[c].height > HEIGHT_THRESHOLDS["HILLS"].max

\* C10: a step never turns a decided cell back into an undecided one.
C10_DecidedIsStable ==
  [][\A c \in DOMAIN terrain :
       IsTile(terrain[c]) => (c \in DOMAIN terrain' /\ IsTile(terrain'[c]))]_vars

\* a finished run in which the smoothing pass moved a cell grown by propagation
C10_Witness ==
  /\ phase = "done"
  /\ \E c \in Cells(width, depth) \ seeded :
        /\ Decided(c)
        /\ terrain[c].moisture # MapAt(moistureMap, c[1], c[2])

\* C2 (as claimed): two calls of generateTerrain with the same arguments
\* return the same grid, cell for cell.
C2_Deterministic ==
  (phase = "done" /\ runs = 2) => terrain = previous

\* the spec's classification list: the first rule that matches decides
FirstMatch(rules) ==
  rules[CHOOSE k \in 1 .. Len(rules) :
          rules[k][1] /\ \A j \in 1 .. k - 1 : ~rules[j][1]][2]

InClosedBand(h, type) ==
  HEIGHT_THRESHOLDS[type].min <= h /\ h <= HEIGHT_THRESHOLDS[type].max
AboveBandMin(h, type) ==
  HEIGHT_THRESHOLDS[type].min < h /\ h <= HEIGHT_THRESHOLDS[type].max

PriorityList(h, m, t, mountain, hill) ==
  << << InClosedBand(h, "DEEP_WATER"), "DEEP_WATER" >>,
     << InClosedBand(h, "SHALLOW_WATER"), "SHALLOW_WATER" >>,
     << h >= HEIGHT_THRESHOLDS["SNOW_PEAKS"].min, "SNOW_PEAKS" >>,
     << t > 70 /\ m < 30, "DESERT" >>,
     << m > 70 /\ h < HEIGHT_THRESHOLDS["HILLS"].min, "SWAMP" >>,
     << t < 30 /\ h > HEIGHT_THRESHOLDS["MOUNTAINS"].min, "SNOW_PEAKS" >>,
     << mountain, "MOUNTAINS" >>,
     << hill, "HILLS" >>,
     << m > 60, "DENSE_FOREST" >>,
     << m > 40, "FOREST" >>,
     << TRUE, "GRASSLAND" >> >>

Remaining ==
  LET nulls == Cardinality({c \in DOMAIN terrain : terrain[c] = Null})
      cells == Cardinality(DOMAIN terrain)
  IN ((nulls * (cells + 1) + Len(queue)) * 5 + (5 - dir)) * (COLLAPSE_ATTEMPTS + 1)
       + (COLLAPSE_ATTEMPTS - attempt)

\* C9: propagation terminates under every outcome of the draws: every step of
\* propagateTerrain's loop either leaves strictly less to do (Remaining is a
\* natural number) or ends the loop, the loop ends only with an empty queue
\* and every cell of the grid decided, and the loop is never left in a state
\* none of its steps covers (dir 5: Dequeue or PropagateDone; dir 1..4:
\* SkipNeighbor, Attempt below COLLAPSE_ATTEMPTS, Fallback at it).
C9_PropagationTerminates ==
  [][/\ phase' = "propagate"
          => dir' \in 1 .. 5 /\ attempt' \in 0 .. COLLAPSE_ATTEMPTS
     /\ phase = "propagate"
          => \/ phase' = "propagate" /\ Remaining' < Remaining
             \/ /\ phase' = "smooth"
                /\ queue' = << >>
                /\ \A c \in Cells(width, depth) : IsTile(terrain'[c])]_vars

\* the queue has emptied after a cell had all its attempts rejected
C9_Witness ==
  /\ phase = "smooth"
  /\ queue = << >>
  /\ fallback # {}
  /\ \A c \in Cells(width, depth) : Decided(c)

\* n * |height - average height of the in-bounds 4-neighbours| of cell c in
\* grid t, n being the number of those neighbours (exact in integers)
Deviation(t, c) ==
  LET neighbors == Around(t, c[1], c[2], width, depth, directions, 1)
      n == Len(neighbors)
  IN MathAbs(n * t[c].height - SumSeq([k \in 1 .. n |-> neighbors[k].height]))

NumAround(c) == Len(Around(terrain, c[1], c[2], width, depth, directions, 1))

\* C11 (as claimed): once the smoothing pass has visited every cell, each
\* cell's |height - average height of its 4-neighbours| is at most what it was
\* when the pass started (heights are hundredths; two hundredths per
\* neighbour are allowed for the rounding of the averages).
C11_SmoothingNeverIncreasesDelta ==
  (ValidArgs /\ phase \in {"feature", "done"})
    => \A c \in Cells(width, depth) :
          NumAround(c) >= 1
            => Deviation(terrain, c) <= Deviation(presmooth, c) + 2 * NumAround(c)

\* C12: a step of the feature pass never removes a feature from a cell: each
\* cell's feature list after the step starts with its list before the step.
C12_FeaturesOnlyGrow ==
  [][phase = "feature"
       => \A c \in DOMAIN terrain :
             IsTile(terrain[c])
               => /\ IsTile(terrain'[c])
                  /\ Len(terrain'[c].features) >= Len(terrain[c].features)
                  /\ SubSeq(terrain'[c].features, 1, Len(terrain[c].features))
                       = terrain[c].features]_vars

\* a seeded mountain that carried a tower gained a cave entrance in the pass
C12_Witness ==
  /\ phase \in {"feature", "done"}
  /\ \E c \in Cells(width, depth) :
        c \in seeded /\ terrain[c].features = << "TOWER", "CAVE_ENTRANCE" >>

\* the step is the success path of propagateTerrain deciding cell c
SuccessPathDecides(c) ==
  /\ phase = "propagate"
  /\ terrain[c] = Null
  /\ IsTile(terrain'[c])
  /\ fallback' = fallback

\* C13 (as claimed): a cell decided on the success path is, as it is enqueued
\* (after adjustHeightForBiome), compatible with every decided 4-neighbour and
\* within 1.5 of each such neighbour's height.
C13_SuccessPathWithinMaxDiff ==
  [][\A c \in Cells(width, depth) :
       SuccessPathDecides(c)
         => LET ns == DecidedAround(terrain, c[1], c[2], width, depth)
            IN \A k \in 1 .. Len(ns) :
                  /\ isValidNeighbor(terrain'[c].type, ns[k].type)
                  /\ MathAbs(terrain'[c].height - ns[k].height) <= 150]_vars

\* C14: while a neighbour is being expanded, a rejected attempt is followed by
\* the next attempt, an accepted attempt ends the retry loop, and the fallback
\* assigns the cell exactly when COLLAPSE_ATTEMPTS attempts were rejected; the
\* fallback tile is the midpoint of the valid range, classified with the
\* cell's local moisture and temperature, and its coordinate is enqueued.
C14_FallbackExactlyAfterAllAttempts ==
  [][(phase = "propagate" /\ Expandable)
       => LET c == <<newX, newZ>>
              range == getValidHeightRange(newX, newZ, terrain,
                                           RowLen(terrain, width), depth)
              mid == (range.min + range.max) \div 2
              m == MapAt(moistureMap, newX, newZ)
              t == MapAt(temperatureMap, newX, newZ)
          IN IF attempt < COLLAPSE_ATTEMPTS
             THEN /\ fallback' = fallback
                  /\ \/ /\ terrain' = terrain
                        /\ attempt' = attempt + 1
                        /\ dir' = dir /\ queue' = queue
                     \/ /\ IsTile(terrain'[c])
                        /\ attempt' = 0
                        /\ dir' = dir + 1
                        /\ queue' = Append(queue, c)
             ELSE /\ attempt = COLLAPSE_ATTEMPTS
                  /\ fallback' = fallback \cup {c}
                  /\ terrain' = [terrain EXCEPT ![c] =
                                   Tile(mid, determineTerrainType(mid, m, t), m, t, << >>)]
                  /\ queue' = Append(queue, c)]_vars

\* a cell was assigned by the fallback, unvalidated: its type is not
\* compatible with a decided neighbour's
C14_Witness ==
  /\ phase = "propagate"
  /\ \E c \in fallback :
        /\ Len(queue) >= 1 /\ queue[Len(queue)] = c
        /\ \E n \in Cells(width, depth) :
              /\ Adjacent(c, n) /\ IsTile(terrain[n])
              /\ ~isValidNeighbor(terrain[c].type, terrain[n].type)

\* the tile the success path stores for a cell with local climate (m, t) when
\* height h was classified and validated and adjustHeightForBiome drew jitter
Stored(h, m, t, jitter) ==
  adjustHeightForBiome(Tile(h, determineTerrainType(h, m, t), m, t, << >>), jitter)

\* C15 (as claimed): a cell accepted on attempt 0 was classified and validated
\* with a height exactly as getWeightedRandomHeight drew it.
C15_FirstAttemptAsDrawn ==
  [][\A c \in Cells(width, depth) :
       (SuccessPathDecides(c) /\ attempt = 0)
         => \E roll \in RowRolls, jitter \in JitterDraws :
               terrain'[c] = Stored(getWeightedRandomHeight(roll[1], roll[2]),
                                    MapAt(moistureMap, c[1], c[2]),
                                    MapAt(temperatureMap, c[1], c[2]), jitter)]_vars

\* C15 (amended): a cell accepted on attempt 0 was classified and validated
\* with the height getWeightedRandomHeight drew, clamped to the cell's valid
\* range; a cell accepted on a later attempt, with a height sampled inside the
\* valid range.
C15_FirstAttemptClamped ==
  [][\A c \in Cells(width, depth) :
       SuccessPathDecides(c)
         => LET range == getValidHeightRange(c[1], c[2], terrain, width, depth)
                m == MapAt(moistureMap, c[1], c[2])
                t == MapAt(temperatureMap, c[1], c[2])
            IN IF attempt = 0
               THEN \E roll \in RowRolls, jitter \in JitterDraws :
                       terrain'[c] =
                         Stored(MathMax(range.min,
                                  MathMin(range.max,
                                    getWeightedRandomHeight(roll[1], roll[2]))),
                                m, t, jitter)
               ELSE \E h \in range.min .. range.max, jitter \in JitterDraws :
                       terrain'[c] = Stored(h, m, t, jitter)]_vars

\* next to a deep-water seed at 1.0 a cell was accepted at 2.5, the top of its
\* valid range [0, 2.5]: the 10.5 drawn on attempt 0, clamped (a height
\* sampled inside the range is below its top, the fallback is the midpoint)
C15_Witness ==
  /\ phase = "propagate"
  /\ \E c \in Cells(width, depth) \ (seeded \cup fallback), n \in seeded :
        /\ Adjacent(c, n)
        /\ terrain[n].height = 100
        /\ IsTile(terrain[c]) /\ terrain[c].height = 250
        /\ queue # << >> /\ queue[Len(queue)] = c

\* the decided cells of the grid that are 4-adjacent to c
DecidedNeighbours(c) ==
  {n \in Cells(width, depth) : Adjacent(c, n) /\ IsTile(terrain[n])}

RECURSIVE SumHeights(_)
SumHeights(S) ==
  IF S = {} THEN 0
  ELSE LET n == CHOOSE n \in S : TRUE
       IN terrain[n].height + SumHeights(S \ {n})

C17_SeedsOnUndecidedCells ==
  (ValidArgs /\ phase = "seed")
    => /\ Cardinality(seeded) = MathMin(i, width * depth)
       /\ \A c \in Cells(width, depth) : IsTile(terrain[c]) <=> c \in seeded

Propagating == phase \in {"propagate", "smooth", "feature", "done"}

\* the position of coordinate c in sequence q (0: not in it)
PosIn(q, c) ==
  IF \E k \in 1 .. Len(q) : q[k] = c
  THEN CHOOSE k \in 1 .. Len(q) : q[k] = c
  ELSE 0

WorkOrder ==
  SelectSeq(ScanOrder(width, depth), LAMBDA c : c \in seeded)
    \o SelectSeq(order, LAMBDA c : c \notin seeded)

InQueue(q) == {q[k] : k \in 1 .. Len(q)}

\* C18: in the simple variant, when the propagation loop is entered the work
\* queue holds every seeded coordinate and only seeded coordinates: each
\* coordinate pushed is a cell the seeding loop decided.
C18_InitialQueueIsTheSeeds ==
  (phase = "propagate" /\ expanded = << >> /\ dir = 5)
    => /\ InQueue(queue) = seeded
       /\ \A c \in InQueue(queue) : IsTile(terrain[c])

\* C19: in the simple variant, for every width >= 1 and height >= 1 and every
\* outcome of the draws, no cell is null once the propagation queue has
\* emptied, and smoothTerrain never throws on reading a null cell.
C19_NoNullWhenQueueEmpties ==
  /\ (phase \in {"smooth", "done"} /\ width >= 1 /\ depth >= 1)
       => \A c \in Cells(width, depth) : IsTile(terrain[c])
  /\ outcome # "TypeError"

\* C21: the compatibility relation is symmetric: for all terrain types a and
\* b, isValidNeighbor(a, b) = isValidNeighbor(b, a).
C21_CompatibilityIsSymmetric ==
  (Len(args) = 2 /\ args[1] \in TerrainTypes /\ Len(result) = 2)
    => result[1] = result[2]

\* the mean height of the in-bounds 4-neighbours of cell c in grid t
AverageAround(t, c) ==
  LET neighbors == Around(t, c[1], c[2], width, depth, directions, 1)
      n == Len(neighbors)
  IN JsDiv(SumSeq([k \in 1 .. n |-> neighbors[k].height]), n)

\* a step in which smoothTile has been applied to the cell posCell
SmoothTileApplied ==
  /\ ValidArgs
  /\ phase = "smooth" /\ phase' = "smooth"
  /\ pos' = pos + 1

\* C22 (as claimed): when smoothTile finds |height - avg| > 2, avg being the
\* mean height of the in-bounds 4-neighbours at that moment, the cell's height
\* moves exactly one unit toward avg (old height - 1 if old > avg, old height
\* + 1 otherwise) and the type is reclassified from the new height with the
\* cell's moisture and temperature from before the blend; otherwise the
\* height and the type are unchanged.
C22_SmoothTileMovesOneUnit ==
  [][(SmoothTileApplied /\ NumAround(posCell) >= 1)
       => LET old == terrain[posCell]
              new == terrain'[posCell]
              avg == AverageAround(terrain, posCell)
          IN IF MathAbs(old.height - avg) > 200
             THEN /\ new.height = old.height
                                    + (IF old.height > avg THEN 0 - 100 ELSE 100)
                  /\ new.type = determineTerrainType(new.height, old.moisture,
                                                     old.temperature)
             ELSE /\ new.height = old.height
                  /\ new.type = old.type]_vars

\* the grid after smoothTile has been applied to the cells of t in the order
\* visiting[k], visiting[k + 1], ...
RECURSIVE SmoothInOrder(_, _, _)
SmoothInOrder(t, visiting, k) ==
  IF k > Len(visiting) THEN t
  ELSE SmoothInOrder([t EXCEPT ![visiting[k]] =
                        smoothTile(t, visiting[k][1], visiting[k][2], width, depth)],
                     visiting, k + 1)

\* every order in which the cells of the grid can be visited once each
VisitingOrders ==
  {s \in [1 .. width * depth -> Cells(width, depth)] :
     \A p, q \in 1 .. width * depth : p # q => s[p] # s[q]}

\* the fields the smoothing pass writes
Smoothed(tile) == << tile.height, tile.type, tile.moisture, tile.temperature >>

\* C23 (as claimed): the smoothing pass is order-independent: smoothTile
\* applied to all cells of the fully decided grid propagation left, in any
\* visiting order, gives the heights, types, moistures and temperatures that
\* the pass of postProcessTerrain (row by row) gave.
C23_SmoothingOrderIndependent ==
  (ValidArgs /\ phase = "feature" /\ pos = 0)
    => \A visiting \in VisitingOrders :
          \A c \in Cells(width, depth) :
             Smoothed(SmoothInOrder(presmooth, visiting, 1)[c]) = Smoothed(terrain[c])

\* how many times feature e occurs in the feature list s
Occurrences(s, e) == Cardinality({k \in 1 .. Len(s) : s[k] = e})

\* C24 (as claimed): every rule of addContextualFeatures adds a feature only
\* to a cell that does not carry it yet, so no cell's feature list holds the
\* same feature twice, the seed cells that generateFeatures gave features to
\* included.
C24_NoFeatureTwice ==
  \A c \in DOMAIN terrain :
     IsTile(terrain[c])
       => \A k \in 1 .. Len(terrain[c].features) :
             Occurrences(terrain[c].features, terrain[c].features[k]) = 1

\* cells a and b are 8-neighbours
Adjacent8(a, b) ==
  a # b /\ MathAbs(a[1] - b[1]) <= 1 /\ MathAbs(a[2] - b[2]) <= 1

\* cell c carries more CASTLE entries in grid t than when the pass started
GainedCastle(t, c) ==
  Occurrences(t[c].features, "CASTLE") > Occurrences(presmooth[c].features, "CASTLE")

\* C25: the feature pass reads the current state of the neighbours: a step in
\* which a cell gains CASTLE starts from a grid in which none of its
\* 8-neighbours carries CASTLE, whether from its seed or gained earlier in the
\* same sweep, and so no two 8-adjacent cells have both gained CASTLE in the
\* pass.
C25_NoCastleNextToCastle ==
  [][(ValidArgs /\ phase = "feature")
       => /\ \A c \in Cells(width, depth) :
               Occurrences(terrain'[c].features, "CASTLE")
                   > Occurrences(terrain[c].features, "CASTLE")
                 => \A n \in Cells(width, depth) :
                       Adjacent8(c, n) => ~includes(terrain[n].features, "CASTLE")
          /\ \A a, b \in Cells(width, depth) :
               Adjacent8(a, b) => ~(GainedCastle(terrain', a) /\ GainedCastle(terrain', b))]_vars

\* a finished run in which a cell gained CASTLE and the hill or mountain cell
\* visited right after it, which has a village next to it, did not
C25_Witness ==
  /\ ValidArgs
  /\ phase = "done"
  /\ \E a, b, v \in Cells(width, depth) :
        /\ Adjacent8(a, b) /\ Adjacent8(b, v)
        /\ PosIn(ScanOrder(width, depth), a) < PosIn(ScanOrder(width, depth), b)
        /\ GainedCastle(terrain, a)
        /\ terrain[b].type \in {"HILLS", "MOUNTAINS"}
        /\ includes(terrain[v].features, "VILLAGE")
        /\ ~includes(terrain[b].features, "CASTLE")

\* every coordinate propagateTerrain has enqueued so far, in order
Enqueued == expanded \o queue

\* C26 (as claimed): in every state of propagateTerrain every queued
\* coordinate is a decided cell and no coordinate has been enqueued twice;
\* when its loop has ended, as many coordinates have been dequeued as the grid
\* has cells (width and height as propagateTerrain reads them from the grid).
C26_QueueHoldsDecidedCellsOnce ==
  (phase \in {"propagate", "smooth", "feature", "done"})
    => /\ \A k \in 1 .. Len(queue) : Decided(queue[k])
       /\ \A p, q \in 1 .. Len(Enqueued) : p # q => Enqueued[p] # Enqueued[q]
       /\ phase # "propagate"
            => Len(expanded) = RowLen(terrain, width) * depth

\* the types determineTerrainType can return
ReturnedTypes == TerrainTypes \ {"BEACH", "WASTELAND"}

\* C27: in every state of generateTerrain (seeding, success path, fallback,
\* smoothing) each decided cell's type is one of the ten types that
\* determineTerrainType can return: no tile is BEACH or WASTELAND.
C27_NoBeachNoWasteland ==
  \A c \in DOMAIN terrain :
     IsTile(terrain[c]) => terrain[c].type \in ReturnedTypes

\* a finished run with a tile whose height is inside the BEACH band and a
\* tile that the fallback path assigned
C27_Witness ==
  /\ phase = "done"
  /\ fallback # {}
  /\ \E c \in DOMAIN terrain :
        /\ IsTile(terrain[c])
        /\ terrain[c].height > HEIGHT_THRESHOLDS["BEACH"].min
        /\ terrain[c].height < HEIGHT_THRESHOLDS["BEACH"].max

\* the features addContextualFeatures can push
ContextualFeatures == {"CASTLE", "MAGICAL_CRYSTAL", "CAVE_ENTRANCE", "TEMPLE"}

\* C28: a cell that the seeding loop did not write carries only features of
\* {CASTLE, MAGICAL_CRYSTAL, CAVE_ENTRANCE, TEMPLE} (so VILLAGE, ANCIENT_RUINS,
\* STANDING_STONES, TOWER, PORTAL, DRAGON_LAIR and SHIPWRECK are found on seed
\* cells only), and its feature list is empty until the feature pass starts.
C28_PropagatedCellsGetContextualFeaturesOnly ==
  \A c \in DOMAIN terrain :
     (IsTile(terrain[c]) /\ c \notin seeded)
       => /\ \A k \in 1 .. Len(terrain[c].features) :
               terrain[c].features[k] \in ContextualFeatures
          /\ phase \in {"seed", "propagate", "smooth"} => terrain[c].features = << >>

\* a finished run in which a propagated cell gained a feature in the feature
\* pass next to a seed that carries a village
C28_Witness ==
  /\ phase = "done"
  /\ \E c, n \in DOMAIN terrain :
        /\ c \notin seeded /\ n \in seeded
        /\ terrain[c].features # << >>
        /\ includes(terrain[n].features, "VILLAGE")

\* the 4-neighbours of cell c that are HILLS in grid t
HillsAround(t, c) ==
  {n \in Cells(width, depth) : Adjacent(c, n) /\ IsTile(t[n]) /\ t[n].type = "HILLS"}

\* C29: in the simple variant, a MOUNTAINS cell that has fewer than two HILLS
\* 4-neighbours when smoothTerrain visits it becomes HILLS with height 7.5, and
\* when smoothTerrain has completed every cell that is still MOUNTAINS has at
\* least two HILLS 4-neighbours.
C29_MountainsKeepTwoHills ==
  [][/\ (phase = "smooth" /\ pos' = pos + 1)
          => LET c == ScanOrder(width, depth)[pos + 1]
             IN (terrain[c].type = "MOUNTAINS"
                   /\ Cardinality(HillsAround(terrain, c)) < 2)
                  => (terrain'[c].type = "HILLS" /\ terrain'[c].height = 750)
     /\ phase' = "done"
          => \A c \in Cells(width, depth) :
                terrain'[c].type = "MOUNTAINS"
                  => Cardinality(HillsAround(terrain', c)) >= 2]_vars

\* smoothTerrain has completed on a row that propagation left as mountains,
\* mountains, hills: the first cell has become HILLS with height 7.5 and the
\* second is still MOUNTAINS between two HILLS cells
C29_Witness ==
  /\ phase = "done"
  /\ width = 3 /\ depth = 1
  /\ presmooth[<<0, 0>>].type = "MOUNTAINS"
  /\ terrain[<<0, 0>>] = SimpleTile(750, "HILLS")
  /\ terrain[<<1, 0>>].type = "MOUNTAINS"
  /\ terrain[<<2, 0>>].type = "HILLS"

\* C30 (as claimed): in the simple variant, whenever the propagation loop
\* calls getValidHeightRange for a neighbour it is about to decide, the range
\* returned has min <= max, whether or not the cap of max to
\* HEIGHT_THRESHOLDS[HILLS].max is applied.
C30_SimpleRangeMinAtMostMax ==
  (phase = "propagate" /\ SimpleExpandable /\ attempt = 0)
    => \A capped \in BOOLEAN :
          LET range == SimpleGetValidHeightRange(newX, newZ, terrain, width,
                                                 depth, capped)
          IN range.min <= range.max

====
